---------------------------- MODULE Spec2Model ----------------------------
(***************************************************************************)
(* dfu-core: the sans-I/O DFU download engine (src/src/download.rs) driven *)
(* through the status-polling engine (src/src/get_status.rs).              *)
(*                                                                         *)
(* Every command of the library is a value whose single method consumes    *)
(* it and returns the next command.  The model keeps the command the       *)
(* caller currently holds (pc names its type, the other variables hold     *)
(* its fields) and has one action per method.  The transport and the       *)
(* device are the environment: a transfer may fail, and a GETSTATUS        *)
(* response is any byte string of Responses.                               *)
(***************************************************************************)
EXTENDS Integers, Sequences, FiniteSets, TLC

(***************************************************************************)
(* Bounds.  TLC's integers are 32-bit signed, so u32::MAX itself cannot be *)
(* written; the two integer ceilings are scaled down and every checked_add *)
(* of the code is modelled against the scaled ceiling.                     *)
(***************************************************************************)
\* stands for u32::MAX (end_pos, copied_pos, erased_pos, page sizes)
U32_MAX == 7
\* stands for u16::MAX (block_num, transfer_size)
U16_MAX == 4
\* longest memory layout the caller passes
MaxPages == 2
\* GETSTATUS rounds the caller runs for one WaitState before giving up
MaxPolls == 2

REQUEST_TYPE == 33
DFU_DNLOAD == 1
DFU_GETSTATUS == 3
DFU_CLRSTATUS == 4

\* page sizes of the memory layouts tried
PageSizes == {0, 3}
\* start addresses tried
Addresses == {0, U32_MAX - 2}
\* end positions tried
EndPositions == {0, 2, 5, U32_MAX}
\* transfer_size of the functional descriptors tried
TransferSizes == {0, 2}
\* bytes.len() of the chunks the caller passes to write; the last one does
\* not fit a u32
ChunkLens == {0, 1, 3, U32_MAX + 1}

RECURSIVE SeqsUpTo(_, _)
SeqsUpTo(S, n) ==
    IF n = 0 THEN {<<>>}
    ELSE LET shorter == SeqsUpTo(S, n - 1)
         IN  shorter \cup {Append(s, x) : s \in {t \in shorter : Len(t) = n - 1}, x \in S}

MemoryLayouts == SeqsUpTo(PageSizes, MaxPages)

FunctionalDescriptors ==
    [transfer_size : TransferSizes,
     manifestation_tolerant : BOOLEAN,
     will_detach : BOOLEAN]

\* GETSTATUS responses the device may give: too short, exactly 6 bytes, longer
StatusBytes == {0, 3, 16}
PollTimeoutBytes == {<<0, 0, 0>>, <<1, 2, 0>>}
StateBytes == {2, 4, 5, 7, 10, 11}
Responses ==
    {<<>>, <<0, 0, 0, 0, 5>>, <<0, 0, 0, 0, 5, 0, 9>>}
    \cup {<<s>> \o t \o <<st, 0>> : s \in StatusBytes, t \in PollTimeoutBytes, st \in StateBytes}

Null == [none |-> TRUE]
NoError == [kind |-> "None"]

Min(a, b) == IF a < b THEN a ELSE b

(***************************************************************************)
(* Status and State decoding, and their raise_error.                       *)
(***************************************************************************)
StatusNames ==
    <<"Ok", "ErrTarget", "ErrFile", "ErrWrite", "ErrErase", "ErrCheckErased",
      "ErrProg", "ErrVerify", "ErrAddress", "ErrNotdone", "ErrFirmware",
      "ErrVendor", "ErrUsbr", "ErrPor", "ErrUnknown", "ErrStalledpkt">>

StateNames ==
    <<"AppIdle", "AppDetach", "DfuIdle", "DfuUnloadSync", "DfuDnbusy",
      "DfuDnloadIdle", "DfuManifestSync", "DfuManifest", "DfuManifestWaitReset",
      "DfuUploadIdle", "DfuError">>

decode_status(b) ==
    IF b < Len(StatusNames) THEN [variant |-> StatusNames[b + 1]]
    ELSE [variant |-> "Other", code |-> b]

decode_state(b) ==
    IF b < Len(StateNames) THEN [variant |-> StateNames[b + 1]]
    ELSE [variant |-> "Other", code |-> b]

\* mutant: the bytes are read most significant first
get_uint_be(bytes, from, n) ==
    LET RECURSIVE be(_)
        be(i) == IF i = n THEN 0 ELSE bytes[from + n - 1 - i] + 256 * be(i + 1)
    IN  be(0)

get_uint_le(bytes, from, n) ==
    LET RECURSIVE le(_)
        le(i) == IF i = n THEN 0 ELSE bytes[from + i] + 256 * le(i + 1)
    IN  le(0)

State_DfuIdle == [variant |-> "DfuIdle"]
State_DfuDnloadIdle == [variant |-> "DfuDnloadIdle"]
State_DfuManifest == [variant |-> "DfuManifest"]
State_DfuError == [variant |-> "DfuError"]
Status_Ok == [variant |-> "Ok"]

\* Status::raise_error: any status but Ok is an error
Status_raise_error(status) ==
    IF status = Status_Ok THEN NoError
    ELSE [kind |-> "StatusError", status |-> status]

\* State::raise_error: DfuError is an error
State_raise_error(state) ==
    IF state = State_DfuError THEN [kind |-> "StateError", state |-> state]
    ELSE NoError

(***************************************************************************)
(* Commands.  A command is a record of its fields; "type" names the Rust    *)
(* type where a generic parameter (the chained command) needs it.          *)
(***************************************************************************)
Error(kind) == [kind |-> kind]

\* the outcome of a method that issues a transfer: the error (NoError on
\* success), the command returned on success, and the transfers it issued
Result(error, next, requests) == [error |-> error, next |-> next, requests |-> requests]

Request(request, value, data_len, data) ==
    [request_type |-> REQUEST_TYPE, request |-> request, value |-> value,
     data_len |-> data_len, data |-> data]

to_le_bytes(v) ==
    <<v % 256, (v \div 256) % 256, (v \div 65536) % 256, (v \div 16777216) % 256>>

DownloadCommandErase(address) == <<65>> \o to_le_bytes(address)

DownloadCommandSetAddress(address) == <<33>> \o to_le_bytes(address)

\* Option<T>
None == [some |-> FALSE]

Some(v) == [some |-> TRUE, value |-> v]

\* mutant: u32::wrapping_add
wrapping_add_u32(a, b) == Some((a + b) % (U32_MAX + 1))

\* u32::checked_add and u16::checked_add
checked_add_u32(a, b) == IF a + b > U32_MAX THEN None ELSE Some(a + b)

checked_add_u16(a, b) == IF a + b > U16_MAX THEN None ELSE Some(a + b)

DownloadLoop(memory_layout, end_pos, copied_pos, erased_pos, address_set, block_num, eof) ==
    [memory_layout |-> memory_layout, end_pos |-> end_pos, copied_pos |-> copied_pos,
     erased_pos |-> erased_pos, address_set |-> address_set, block_num |-> block_num,
     eof |-> eof]

\* the fields ErasePage, SetAddress and DownloadChunk take over from the loop
StepFields(self) ==
    [memory_layout |-> self.memory_layout, end_pos |-> self.end_pos,
     copied_pos |-> self.copied_pos, erased_pos |-> self.erased_pos,
     block_num |-> self.block_num]

\* mutant: the WaitState is built as if the state had been reached
WaitState_reached(state, chained_command) ==
    [type |-> "WaitState", state |-> state, chained_command |-> chained_command,
     end |-> TRUE, poll_timeout |-> 0, in_manifest |-> FALSE]

\* a WaitState as erase, set_address and write build it
WaitState(state, chained_command) ==
    [type |-> "WaitState", state |-> state, chained_command |-> chained_command,
     end |-> FALSE, poll_timeout |-> 0, in_manifest |-> FALSE]

\* mutant: the session also starts from DfuDnloadIdle
Start_chain_from_dnload_idle(self, msg) ==
    IF msg.state = State_DfuIdle \/ msg.state = State_DfuDnloadIdle
    THEN [error |-> NoError,
          into |-> DownloadLoop(self.memory_layout, self.end_pos, self.address,
                                self.address, FALSE, 2, FALSE)]
    ELSE [error |-> [kind |-> "InvalidState", got |-> msg.state, expected |-> State_DfuIdle],
          into |-> Null]

\* Start::chain: Ok(DownloadLoop) or Err(InvalidState)
Start_chain(self, msg) ==
    IF msg.state = State_DfuIdle
    THEN [error |-> NoError,
          into |-> DownloadLoop(self.memory_layout, self.end_pos, self.address,
                                self.address, FALSE, 2, FALSE)]
    ELSE [error |-> [kind |-> "InvalidState", got |-> msg.state, expected |-> State_DfuIdle],
          into |-> Null]

\* mutant: erasing stops when the layout runs out
DownloadLoop_next_truncating(self) ==
    IF self.eof THEN [step |-> "Break", cmd |-> Null]
    ELSE IF self.erased_pos < self.end_pos /\ self.memory_layout # <<>>
    THEN [step |-> "Erase", cmd |-> StepFields(self)]
    ELSE IF ~self.address_set THEN [step |-> "SetAddress", cmd |-> StepFields(self)]
    ELSE [step |-> "DownloadChunk", cmd |-> StepFields(self)]

\* mutant: the address is looked at before the erased extent
DownloadLoop_next_address_first(self) ==
    IF self.eof THEN [step |-> "Break", cmd |-> Null]
    ELSE IF ~self.address_set THEN [step |-> "SetAddress", cmd |-> StepFields(self)]
    ELSE IF self.erased_pos < self.end_pos THEN [step |-> "Erase", cmd |-> StepFields(self)]
    ELSE [step |-> "DownloadChunk", cmd |-> StepFields(self)]

\* DownloadLoop::next: the Step returned, with the command it carries
DownloadLoop_next(self) ==
    IF self.eof THEN [step |-> "Break", cmd |-> Null]
    ELSE IF self.erased_pos < self.end_pos THEN [step |-> "Erase", cmd |-> StepFields(self)]
    ELSE IF ~self.address_set THEN [step |-> "SetAddress", cmd |-> StepFields(self)]
    ELSE [step |-> "DownloadChunk", cmd |-> StepFields(self)]

\* mutant: the erase command is sent before erased_pos is advanced
ErasePage_erase_sends_first(self, io_ok) ==
    IF self.memory_layout = <<>> THEN Result(Error("NoSpaceLeft"), Null, <<>>)
    ELSE LET page_size == Head(self.memory_layout)
             erased_pos == checked_add_u32(self.erased_pos, page_size)
             req == Request(DFU_DNLOAD, 0, 5, DownloadCommandErase(self.erased_pos))
         IN  IF ~io_ok THEN Result(Error("Io"), Null, <<req>>)
             ELSE IF ~erased_pos.some THEN Result(Error("EraseLimitReached"), Null, <<req>>)
             ELSE Result(NoError,
                         WaitState(State_DfuDnloadIdle,
                                   DownloadLoop(Tail(self.memory_layout), self.end_pos,
                                                self.copied_pos, erased_pos.value, FALSE,
                                                self.block_num, FALSE)),
                         <<req>>)

\* mutant: the erased page stays at the head of the layout
ErasePage_erase_keeps_page(self, io_ok) ==
    IF self.memory_layout = <<>> THEN Result(Error("NoSpaceLeft"), Null, <<>>)
    ELSE LET page_size == Head(self.memory_layout)
             erased_pos == checked_add_u32(self.erased_pos, page_size)
             req == Request(DFU_DNLOAD, 0, 5, DownloadCommandErase(self.erased_pos))
         IN  IF ~erased_pos.some THEN Result(Error("EraseLimitReached"), Null, <<>>)
             ELSE IF ~io_ok THEN Result(Error("Io"), Null, <<req>>)
             ELSE Result(NoError,
                         WaitState(State_DfuDnloadIdle,
                                   DownloadLoop(self.memory_layout, self.end_pos,
                                                self.copied_pos, erased_pos.value, FALSE,
                                                self.block_num, FALSE)),
                         <<req>>)

\* ErasePage::erase; io_ok: whether write_control succeeds
ErasePage_erase(self, io_ok) ==
    IF self.memory_layout = <<>> THEN Result(Error("NoSpaceLeft"), Null, <<>>)
    ELSE LET page_size == Head(self.memory_layout)
             rest_memory_layout == Tail(self.memory_layout)
             erased_pos == checked_add_u32(self.erased_pos, page_size)
             req == Request(DFU_DNLOAD, 0, 5, DownloadCommandErase(self.erased_pos))
         IN  IF ~erased_pos.some THEN Result(Error("EraseLimitReached"), Null, <<>>)
             ELSE IF ~io_ok THEN Result(Error("Io"), Null, <<req>>)
             ELSE Result(NoError,
                         WaitState(State_DfuDnloadIdle,
                                   DownloadLoop(rest_memory_layout, self.end_pos,
                                                self.copied_pos, erased_pos.value, FALSE,
                                                self.block_num, FALSE)),
                         <<req>>)

\* SetAddress::set_address
SetAddress_set_address(self, io_ok) ==
    LET req == Request(DFU_DNLOAD, 0, 5, DownloadCommandSetAddress(self.copied_pos))
    IN  IF ~io_ok THEN Result(Error("Io"), Null, <<req>>)
        ELSE Result(NoError,
                    WaitState(State_DfuDnloadIdle,
                              DownloadLoop(self.memory_layout, self.end_pos,
                                           self.copied_pos, self.erased_pos, TRUE,
                                           self.block_num, FALSE)),
                    <<req>>)

\* mutant: copied_pos advances by the whole chunk, not by what was sent
DownloadChunk_write_whole_chunk(self, bytes_len, transfer_size, io_ok) ==
    IF bytes_len > U32_MAX
    THEN Result([kind |-> "BufferTooBig", got |-> bytes_len, expected |-> U32_MAX], Null, <<>>)
    ELSE LET len == Min(bytes_len, transfer_size)
             copied_pos == checked_add_u32(self.copied_pos, bytes_len)
             block_num == checked_add_u16(self.block_num, 1)
             req == Request(DFU_DNLOAD, self.block_num, len, <<>>)
         IN  IF ~copied_pos.some THEN Result(Error("MaximumTransferSizeExceeded"), Null, <<>>)
             ELSE IF ~block_num.some THEN Result(Error("MaximumChunksExceeded"), Null, <<>>)
             ELSE IF ~io_ok THEN Result(Error("Io"), Null, <<req>>)
             ELSE Result(NoError,
                         WaitState(State_DfuDnloadIdle,
                                   DownloadLoop(self.memory_layout, self.end_pos,
                                                copied_pos.value, self.erased_pos, TRUE,
                                                block_num.value, bytes_len = 0)),
                         <<req>>)

\* mutant: the chunk is numbered with the block number of the next chunk
DownloadChunk_write_next_block_num(self, bytes_len, transfer_size, io_ok) ==
    IF bytes_len > U32_MAX
    THEN Result([kind |-> "BufferTooBig", got |-> bytes_len, expected |-> U32_MAX], Null, <<>>)
    ELSE LET len == Min(bytes_len, transfer_size)
             copied_pos == checked_add_u32(self.copied_pos, len)
             block_num == checked_add_u16(self.block_num, 1)
         IN  IF ~copied_pos.some THEN Result(Error("MaximumTransferSizeExceeded"), Null, <<>>)
             ELSE IF ~block_num.some THEN Result(Error("MaximumChunksExceeded"), Null, <<>>)
             ELSE IF ~io_ok
             THEN Result(Error("Io"), Null, <<Request(DFU_DNLOAD, block_num.value, len, <<>>)>>)
             ELSE Result(NoError,
                         WaitState(State_DfuDnloadIdle,
                                   DownloadLoop(self.memory_layout, self.end_pos,
                                                copied_pos.value, self.erased_pos, TRUE,
                                                block_num.value, bytes_len = 0)),
                         <<Request(DFU_DNLOAD, block_num.value, len, <<>>)>>)

\* mutant: the end of the stream is read off the payload sent
DownloadChunk_write_eof_of_payload(self, bytes_len, transfer_size, io_ok) ==
    IF bytes_len > U32_MAX
    THEN Result([kind |-> "BufferTooBig", got |-> bytes_len, expected |-> U32_MAX], Null, <<>>)
    ELSE LET len == Min(bytes_len, transfer_size)
             copied_pos == checked_add_u32(self.copied_pos, len)
             block_num == checked_add_u16(self.block_num, 1)
             req == Request(DFU_DNLOAD, self.block_num, len, <<>>)
         IN  IF ~copied_pos.some THEN Result(Error("MaximumTransferSizeExceeded"), Null, <<>>)
             ELSE IF ~block_num.some THEN Result(Error("MaximumChunksExceeded"), Null, <<>>)
             ELSE IF ~io_ok THEN Result(Error("Io"), Null, <<req>>)
             ELSE Result(NoError,
                         WaitState(State_DfuDnloadIdle,
                                   DownloadLoop(self.memory_layout, self.end_pos,
                                                copied_pos.value, self.erased_pos, TRUE,
                                                block_num.value, len = 0)),
                         <<req>>)

\* DownloadChunk::write; bytes_len is bytes.len(), the payload sent is
\* bytes[..len]
DownloadChunk_write(self, bytes_len, transfer_size, io_ok) ==
    IF bytes_len > U32_MAX
    THEN Result([kind |-> "BufferTooBig", got |-> bytes_len, expected |-> U32_MAX], Null, <<>>)
    ELSE LET len == Min(bytes_len, transfer_size)
             copied_pos == checked_add_u32(self.copied_pos, len)
             block_num == checked_add_u16(self.block_num, 1)
             req == Request(DFU_DNLOAD, self.block_num, len, <<>>)
         IN  IF ~copied_pos.some THEN Result(Error("MaximumTransferSizeExceeded"), Null, <<>>)
             ELSE IF ~block_num.some THEN Result(Error("MaximumChunksExceeded"), Null, <<>>)
             ELSE IF ~io_ok THEN Result(Error("Io"), Null, <<req>>)
             ELSE Result(NoError,
                         WaitState(State_DfuDnloadIdle,
                                   DownloadLoop(self.memory_layout, self.end_pos,
                                                copied_pos.value, self.erased_pos, TRUE,
                                                block_num.value, bytes_len = 0)),
                         <<req>>)

\* mutant: the target is replaced by the state reported
WaitState_chain_moves_target(self, msg) ==
    [type |-> "WaitState", state |-> msg.state, chained_command |-> self.chained_command,
     end |-> (msg.state = self.state), poll_timeout |-> msg.poll_timeout,
     in_manifest |-> (msg.state = State_DfuManifest)]

\* mutant: the poll timeout of the report is dropped
WaitState_chain_keeps_timeout(self, msg) ==
    [type |-> "WaitState", state |-> self.state, chained_command |-> self.chained_command,
     end |-> (msg.state = self.state), poll_timeout |-> self.poll_timeout,
     in_manifest |-> (msg.state = State_DfuManifest)]

\* WaitState::chain
WaitState_chain(self, msg) ==
    [type |-> "WaitState", state |-> self.state, chained_command |-> self.chained_command,
     end |-> (msg.state = self.state), poll_timeout |-> msg.poll_timeout,
     in_manifest |-> (msg.state = State_DfuManifest)]

\* mutant: the wait is over once the device has asked for a poll timeout
WaitState_next_timeout_ends(self, func_desc) ==
    IF self.end \/ self.poll_timeout > 0 THEN [step |-> "Break", value |-> self.chained_command]
    ELSE IF self.in_manifest /\ ~func_desc.manifestation_tolerant
    THEN [step |-> "ManifestWaitReset", usb_reset |-> ~func_desc.will_detach]
    ELSE [step |-> "Wait", get_status |-> [chained_command |-> self],
          poll_timeout |-> self.poll_timeout]

\* mutant: the reset command is given when the device detaches by itself
WaitState_next_reset_on_detach(self, func_desc) ==
    IF self.end THEN [step |-> "Break", value |-> self.chained_command]
    ELSE IF self.in_manifest /\ ~func_desc.manifestation_tolerant
    THEN [step |-> "ManifestWaitReset", usb_reset |-> func_desc.will_detach]
    ELSE [step |-> "Wait", get_status |-> [chained_command |-> self],
          poll_timeout |-> self.poll_timeout]

\* WaitState::next: the Step returned
WaitState_next(self, func_desc) ==
    IF self.end THEN [step |-> "Break", value |-> self.chained_command]
    ELSE IF self.in_manifest /\ ~func_desc.manifestation_tolerant
    THEN [step |-> "ManifestWaitReset", usb_reset |-> ~func_desc.will_detach]
    ELSE [step |-> "Wait", get_status |-> [chained_command |-> self],
          poll_timeout |-> self.poll_timeout]

\* GetStatusRecv::chain, the decoding of the 6 bytes: the GetStatusMessage
decode_message(bytes) ==
    [status |-> decode_status(bytes[1]), poll_timeout |-> get_uint_le(bytes, 2, 3),
     state |-> decode_state(bytes[5]), index |-> bytes[6]]

\* ChainedCommand::chain of the command a GetStatusRecv holds
ChainedCommand_chain(self, msg) ==
    IF self.type = "Start" THEN Start_chain(self, msg)
    ELSE [error |-> NoError, into |-> WaitState_chain(self, msg)]

\* mutant: a response of exactly 6 bytes is taken for a short one
GetStatusRecv_chain_six_is_short(self, bytes) ==
    IF Len(bytes) <= 6
    THEN [error |-> [kind |-> "ResponseTooShort", got |-> Len(bytes), expected |-> 6],
          into |-> Null, msg |-> Null]
    ELSE LET status == decode_status(bytes[1])
             msg == [status |-> status, poll_timeout |-> get_uint_le(bytes, 2, 3),
                     state |-> decode_state(bytes[5]), index |-> bytes[6]]
         IN  IF Status_raise_error(status) # NoError
             THEN [error |-> Status_raise_error(status), into |-> Null, msg |-> Null]
             ELSE IF State_raise_error(msg.state) # NoError
             THEN [error |-> State_raise_error(msg.state), into |-> Null, msg |-> Null]
             ELSE LET r == ChainedCommand_chain(self.chained_command, msg)
                  IN  [error |-> r.error, into |-> r.into, msg |-> msg]

\* mutant: state.raise_error() is not called
GetStatusRecv_chain_no_state_check(self, bytes) ==
    IF Len(bytes) < 6
    THEN [error |-> [kind |-> "ResponseTooShort", got |-> Len(bytes), expected |-> 6],
          into |-> Null, msg |-> Null]
    ELSE LET status == decode_status(bytes[1])
             msg == [status |-> status, poll_timeout |-> get_uint_le(bytes, 2, 3),
                     state |-> decode_state(bytes[5]), index |-> bytes[6]]
         IN  IF Status_raise_error(status) # NoError
             THEN [error |-> Status_raise_error(status), into |-> Null, msg |-> Null]
             ELSE LET r == ChainedCommand_chain(self.chained_command, msg)
                  IN  [error |-> r.error, into |-> r.into, msg |-> msg]

\* GetStatusRecv::chain
GetStatusRecv_chain(self, bytes) ==
    IF Len(bytes) < 6
    THEN [error |-> [kind |-> "ResponseTooShort", got |-> Len(bytes), expected |-> 6],
          into |-> Null, msg |-> Null]
    ELSE LET status == decode_status(bytes[1])
             poll_timeout == get_uint_le(bytes, 2, 3)
             state == decode_state(bytes[5])
             i_string == bytes[6]
             msg == [status |-> status, poll_timeout |-> poll_timeout,
                     state |-> state, index |-> i_string]
         IN  IF Status_raise_error(status) # NoError
             THEN [error |-> Status_raise_error(status), into |-> Null, msg |-> Null]
             ELSE IF State_raise_error(state) # NoError
             THEN [error |-> State_raise_error(state), into |-> Null, msg |-> Null]
             ELSE LET r == ChainedCommand_chain(self.chained_command, msg)
                  IN  [error |-> r.error, into |-> r.into, msg |-> msg]

\* ClearStatus::clear
ClearStatus_clear(self, io_ok) ==
    LET req == Request(DFU_CLRSTATUS, 0, 0, <<>>)
    IN  IF ~io_ok THEN Result(Error("Io"), Null, <<req>>)
        ELSE Result(NoError, self.chained_command, <<req>>)

\* mutant: a failed transfer is tried once more
GetStatus_get_status_retrying(self, io_ok) ==
    LET req == Request(DFU_GETSTATUS, 0, 0, <<>>)
    IN  IF ~io_ok THEN Result(NoError, [chained_command |-> self.chained_command], <<req, req>>)
        ELSE Result(NoError, [chained_command |-> self.chained_command], <<req>>)

\* GetStatus::get_status
GetStatus_get_status(self, io_ok) ==
    LET req == Request(DFU_GETSTATUS, 0, 0, <<>>)
    IN  IF ~io_ok THEN Result(Error("Io"), Null, <<req>>)
        ELSE Result(NoError, [chained_command |-> self.chained_command], <<req>>)

(***************************************************************************)
(* State.                                                                  *)
(***************************************************************************)
VARIABLES
    func_desc,   \* the transport's functional_descriptor()
    start,       \* the Start command the session was opened with
    pc,          \* the type of the command (or final value) the caller holds
    cmd,         \* that command's fields
    error,       \* the Err a method returned (pc = "Error"), else NoError
    wait,        \* the last Step WaitState::next returned (Null: none yet)
    io,          \* the transfers the last method issued
    arg,         \* what the last method was given: the response bytes
                 \* (chain), bytes.len() (write), else Null
    polls,       \* GETSTATUS rounds run for the current WaitState
    \* history of the session
    steps,       \* the Steps DownloadLoop::next returned, in order
    empties,     \* bytes.is_empty() of each chunk write that succeeded
    sent,        \* payload bytes of the chunk DNLOADs that succeeded
    polled,      \* a GETSTATUS was issued since the last DNLOAD
    last_state,  \* State of the last report decoded (Null: none yet)
    report       \* last report chained into the current WaitState (Null: none)

vars == <<func_desc, start, pc, cmd, error, wait, io, arg, polls,
          steps, empties, sent, polled, last_state, report>>

\* DfuSansIo::download hands the caller a GetStatus that chains into Start;
\* a session on a device left in an error state is led by a ClearStatus that
\* holds that GetStatus
Init ==
    /\ func_desc \in FunctionalDescriptors
    /\ start \in [type : {"Start"}, memory_layout : MemoryLayouts,
                  address : Addresses, end_pos : EndPositions]
    /\ pc \in {"GetStatus", "ClearStatus"}
    /\ cmd = IF pc = "GetStatus" THEN [chained_command |-> start]
             ELSE [chained_command |-> [chained_command |-> start]]
    /\ error = NoError
    /\ wait = Null
    /\ io = <<>>
    /\ arg = Null
    /\ polls = 0
    /\ steps = <<>>
    /\ empties = <<>>
    /\ sent = 0
    /\ polled = FALSE
    /\ last_state = Null
    /\ report = Null

\* a method returned Err: the command is consumed, the session is over
Fail(e) ==
    /\ pc' = "Error"
    /\ cmd' = Null
    /\ error' = e

\* the caller runs clear on the ClearStatus it holds
clear ==
    /\ pc = "ClearStatus"
    /\ \E io_ok \in BOOLEAN :
         LET r == ClearStatus_clear(cmd, io_ok)
         IN  /\ io' = r.requests
             /\ IF r.error # NoError THEN Fail(r.error)
                ELSE pc' = "GetStatus" /\ cmd' = r.next /\ error' = error
    /\ arg' = Null
    /\ UNCHANGED <<func_desc, start, wait, polls, steps, empties, sent, polled,
                   last_state, report>>

\* the caller runs get_status on the GetStatus it holds
get_status ==
    /\ pc = "GetStatus"
    /\ polls < MaxPolls \/ cmd.chained_command.type = "Start"
    /\ \E io_ok \in BOOLEAN :
         LET r == GetStatus_get_status(cmd, io_ok)
         IN  /\ io' = r.requests
             /\ IF r.error # NoError THEN Fail(r.error)
                ELSE pc' = "GetStatusRecv" /\ cmd' = r.next /\ error' = error
    /\ polled' = TRUE
    /\ arg' = Null
    /\ polls' = IF cmd.chained_command.type = "Start" THEN polls ELSE polls + 1
    /\ UNCHANGED <<func_desc, start, wait, steps, empties, sent, last_state, report>>

\* the caller feeds the response into GetStatusRecv::chain
chain ==
    /\ pc = "GetStatusRecv"
    /\ \E bytes \in Responses :
         LET r == GetStatusRecv_chain(cmd, bytes)
         IN  /\ arg' = [bytes |-> bytes]
             /\ IF r.error # NoError THEN Fail(r.error)
                ELSE /\ pc' = IF cmd.chained_command.type = "Start"
                              THEN "DownloadLoop" ELSE "WaitState"
                     /\ cmd' = r.into
                     /\ error' = error
             /\ last_state' = IF Len(bytes) < 6 THEN last_state ELSE decode_state(bytes[5])
             /\ report' = IF r.error = NoError /\ cmd.chained_command.type = "WaitState"
                          THEN r.msg ELSE report
    /\ io' = <<>>
    /\ UNCHANGED <<func_desc, start, wait, polls, steps, empties, sent, polled>>

\* the caller asks the DownloadLoop for the next Step
next ==
    /\ pc = "DownloadLoop"
    /\ LET r == DownloadLoop_next(cmd)
       IN  /\ pc' = r.step
           /\ cmd' = r.cmd
           /\ steps' = Append(steps, r.step)
    /\ io' = <<>>
    /\ arg' = Null
    /\ UNCHANGED <<func_desc, start, error, wait, polls, empties, sent, polled,
                   last_state, report>>

\* a method that issued a DNLOAD returned r
Issued(r) ==
    /\ io' = r.requests
    /\ IF r.error # NoError THEN Fail(r.error) /\ UNCHANGED <<polls, report>>
       ELSE /\ pc' = "WaitState"
            /\ cmd' = r.next
            /\ error' = error
            /\ polls' = 0
            /\ report' = Null
    /\ polled' = (polled /\ r.requests = <<>>)

erase ==
    /\ pc = "Erase"
    /\ \E io_ok \in BOOLEAN : Issued(ErasePage_erase(cmd, io_ok))
    /\ arg' = Null
    /\ UNCHANGED <<func_desc, start, wait, steps, empties, sent, last_state>>

set_address ==
    /\ pc = "SetAddress"
    /\ \E io_ok \in BOOLEAN : Issued(SetAddress_set_address(cmd, io_ok))
    /\ arg' = Null
    /\ UNCHANGED <<func_desc, start, wait, steps, empties, sent, last_state>>

write ==
    /\ pc = "DownloadChunk"
    /\ \E bytes_len \in ChunkLens, io_ok \in BOOLEAN :
         LET r == DownloadChunk_write(cmd, bytes_len, func_desc.transfer_size, io_ok)
         IN  /\ Issued(r)
             /\ arg' = [bytes_len |-> bytes_len]
             /\ empties' = IF r.error = NoError THEN Append(empties, bytes_len = 0)
                           ELSE empties
             /\ sent' = IF r.error = NoError THEN sent + r.requests[1].data_len ELSE sent
    /\ UNCHANGED <<func_desc, start, wait, steps, last_state>>

\* the caller asks the WaitState for the next Step
wait_next ==
    /\ pc = "WaitState"
    /\ LET r == WaitState_next(cmd, func_desc)
       IN  /\ wait' = r
           /\ CASE r.step = "Break" ->
                     /\ pc' = "DownloadLoop"
                     /\ cmd' = r.value
                     /\ polls' = 0
                     /\ report' = Null
                [] r.step = "ManifestWaitReset" ->
                     /\ pc' = "ManifestWaitReset"
                     /\ cmd' = [usb_reset |-> r.usb_reset]
                     /\ UNCHANGED <<polls, report>>
                [] OTHER ->
                     /\ pc' = "GetStatus"
                     /\ cmd' = r.get_status
                     /\ UNCHANGED <<polls, report>>
    /\ io' = <<>>
    /\ arg' = Null
    /\ UNCHANGED <<func_desc, start, error, steps, empties, sent, polled, last_state>>

Next ==
    \/ clear
    \/ get_status
    \/ chain
    \/ next
    \/ erase
    \/ set_address
    \/ write
    \/ wait_next

Spec == Init /\ [][Next]_vars

\* the caller keeps running the command it holds for as long as it holds one
SpecLive == Init /\ [][Next]_vars /\ WF_vars(Next)

(***************************************************************************)
(* The decoding of GetStatusRecv::chain on its own: every status and state *)
(* code up to one past the named ones and the largest byte, the poll       *)
(* timeout bytes at their extremes.                                        *)
(***************************************************************************)
DecodeStatusBytes == 0..(Len(StatusNames) + 1) \cup {255}
DecodeTimeoutBytes == {0, 1, 255}
DecodeStateBytes == 0..(Len(StateNames) + 1) \cup {255}
DecodeIndexBytes == {0, 255}
DecodeInputs ==
    {<<s, t1, t2, t3, st, i>> : s \in DecodeStatusBytes,
                                t1 \in DecodeTimeoutBytes, t2 \in DecodeTimeoutBytes,
                                t3 \in DecodeTimeoutBytes,
                                st \in DecodeStateBytes, i \in DecodeIndexBytes}

\* a GetStatusRecv about to be given a 6-byte response
InitDecode ==
    /\ func_desc = [transfer_size |-> 0, manifestation_tolerant |-> FALSE, will_detach |-> FALSE]
    /\ start = [type |-> "Start", memory_layout |-> <<>>, address |-> 0, end_pos |-> 0]
    /\ pc = "GetStatusRecv"
    /\ cmd = [chained_command |-> start]
    /\ error = NoError
    /\ wait = Null
    /\ io = <<>>
    /\ arg \in {[bytes |-> b] : b \in DecodeInputs}
    /\ polls = 0
    /\ steps = <<>>
    /\ empties = <<>>
    /\ sent = 0
    /\ polled = TRUE
    /\ last_state = Null
    /\ report = Null

\* the response is decoded into the GetStatusMessage
decode ==
    /\ pc = "GetStatusRecv"
    /\ pc' = "Decoded"
    /\ report' = decode_message(arg.bytes)
    /\ last_state' = decode_state(arg.bytes[5])
    /\ UNCHANGED <<func_desc, start, cmd, error, wait, io, arg, polls, steps, empties,
                   sent, polled>>

NextDecode == decode

SpecDecode == InitDecode /\ [][NextDecode]_vars

(***************************************************************************)
(* Helpers of the properties.                                              *)
(***************************************************************************)
Last(s) == s[Len(s)]

Count(s, x) == Cardinality({i \in 1..Len(s) : s[i] = x})

\* the caller holds a command that carries the download cursor
HasCursor ==
    \/ pc \in {"DownloadLoop", "Erase", "SetAddress", "DownloadChunk", "WaitState"}
    \/ pc \in {"GetStatus", "GetStatusRecv"} /\ cmd.chained_command.type = "WaitState"

\* the cursor of the command held: a step's own fields, or the DownloadLoop
\* a WaitState will yield
Cursor ==
    IF pc \in {"DownloadLoop", "Erase", "SetAddress", "DownloadChunk"} THEN cmd
    ELSE IF pc = "WaitState" THEN cmd.chained_command
    ELSE cmd.chained_command.chained_command

\* the caller is between a DNLOAD and the Break that follows it: it holds the
\* WaitState, or a GetStatus / GetStatusRecv that chains into it
Polling ==
    \/ pc = "WaitState"
    \/ pc \in {"GetStatus", "GetStatusRecv"} /\ cmd.chained_command.type = "WaitState"

\* the method just run issued a DFU_DNLOAD
IssuedDnload == io # <<>> /\ io[1].request = DFU_DNLOAD

(***************************************************************************)
(* C1: over an error-free session the Steps DownloadLoop::next returns are *)
(* zero or more Erase, then exactly one SetAddress, then one or more       *)
(* DownloadChunk, then Break; no Erase or SetAddress follows a             *)
(* DownloadChunk, and among the DownloadChunk steps exactly the last one   *)
(* is written with an empty chunk (bytes.is_empty()).  Checked on every    *)
(* prefix of the sequence.                                                 *)
(***************************************************************************)
C1_StepOrder ==
    /\ steps # <<>> => steps[1] \in {"Erase", "SetAddress"}
    /\ \A i \in 1..(Len(steps) - 1) :
          \/ steps[i] = "Erase" /\ steps[i + 1] \in {"Erase", "SetAddress"}
          \/ steps[i] = "SetAddress" /\ steps[i + 1] = "DownloadChunk"
          \/ steps[i] = "DownloadChunk" /\ steps[i + 1] \in {"DownloadChunk", "Break"}
    /\ Len(empties) <= Count(steps, "DownloadChunk")
    /\ \A i \in 1..Len(empties) : empties[i] => i = Count(steps, "DownloadChunk")
    /\ (steps # <<>> /\ Last(steps) = "Break") =>
          /\ Count(steps, "SetAddress") = 1
          /\ Count(steps, "DownloadChunk") >= 1
          /\ Len(empties) = Count(steps, "DownloadChunk")
          /\ Last(empties)

\* a session that erased, set the address, wrote two chunks and broke
C1_Witness ==
    /\ pc = "Break"
    /\ steps = <<"Erase", "SetAddress", "DownloadChunk", "DownloadChunk", "Break">>
    /\ empties = <<FALSE, TRUE>>

(***************************************************************************)
(* C2: between any two DFU_DNLOAD requests of the download engine at least *)
(* one GETSTATUS is issued, and the last report decoded before the second  *)
(* DNLOAD has State DfuDnloadIdle: the WaitState that erase, set_address   *)
(* and write return answers its first next() with Wait, never Break, and   *)
(* a DownloadLoop is yielded only by a Break that follows a report whose   *)
(* State is DfuDnloadIdle.                                                 *)
(***************************************************************************)
C2_PollBetweenDnloads ==
    [][/\ (IssuedDnload' /\ Len(steps) >= 2) =>
             /\ polled
             /\ last_state = State_DfuDnloadIdle
       /\ (pc = "WaitState" /\ report = Null) =>
             /\ wait'.step = "Wait"
             /\ pc' = "GetStatus"
       /\ (pc = "WaitState" /\ pc' = "DownloadLoop") =>
             /\ wait'.step = "Break"
             /\ report # Null
             /\ report.state = State_DfuDnloadIdle
             /\ last_state = State_DfuDnloadIdle
             /\ polled
      ]_vars

\* a second DNLOAD (the set-address after an erase) has been issued
C2_Witness ==
    /\ IssuedDnload
    /\ steps = <<"Erase", "SetAddress">>
    /\ pc = "WaitState"

(***************************************************************************)
(* C3: a response of 6 bytes or more whose status byte is not 0x00 or      *)
(* whose state byte is 10 (DfuError) makes GetStatusRecv::chain return an  *)
(* error; the chained command is not run: no command is returned, so a     *)
(* pending WaitState or Start never sees the report.                       *)
(***************************************************************************)
C3_ErrorReportShortCircuits ==
    [][(/\ pc = "GetStatusRecv"
        /\ Len(arg'.bytes) >= 6
        /\ (arg'.bytes[1] # 0 \/ arg'.bytes[5] = 10)) =>
             /\ pc' = "Error"
             /\ cmd' = Null
             /\ error'.kind = (IF arg'.bytes[1] # 0 THEN "StatusError" ELSE "StateError")
             /\ report' = report
      ]_vars

\* a WaitState that had seen a report was polled again and got a DfuError
\* report with status Ok
C3_Witness ==
    /\ pc = "Error"
    /\ error.kind = "StateError"
    /\ arg # Null
    /\ arg.bytes[1] = 0
    /\ arg.bytes[5] = 10
    /\ report # Null
    /\ steps # <<>>

(***************************************************************************)
(* C4: whenever a DownloadChunk write is issued the data it covers lies    *)
(* inside the erased extent: copied_pos, and copied_pos plus the bytes     *)
(* sent, never exceed erased_pos, whatever chunk lengths the caller        *)
(* passes.  The code does not hold this: write never looks at erased_pos   *)
(* or end_pos.                                                             *)
(***************************************************************************)
C4_WriteInsideErased ==
    /\ pc = "DownloadChunk" => cmd.copied_pos <= cmd.erased_pos
    /\ (pc = "WaitState" /\ IssuedDnload /\ Last(steps) = "DownloadChunk") =>
          cmd.chained_command.copied_pos <= cmd.chained_command.erased_pos

\* what the code does hold at a chunk write: the erased extent reaches end_pos
C4_ErasedToEnd ==
    pc = "DownloadChunk" => cmd.erased_pos >= cmd.end_pos

(***************************************************************************)
(* C5: WaitState::next is decided by the last report chained into the      *)
(* WaitState and by the functional descriptor: Break with the chained      *)
(* command exactly when the last reported State is the target; otherwise   *)
(* ManifestWaitReset exactly when the last reported State is DfuManifest   *)
(* and manifestation_tolerant is false; otherwise Wait, with a GetStatus   *)
(* that chains into this WaitState and the poll timeout of the last        *)
(* report (0 when none has been received).                                 *)
(***************************************************************************)
C5_WaitStateNext ==
    [][pc = "WaitState" =>
         LET reached == report # Null /\ report.state = cmd.state
             manifest == /\ report # Null
                         /\ report.state = State_DfuManifest
                         /\ ~func_desc.manifestation_tolerant
         IN  /\ wait'.step = "Break" <=> reached
             /\ wait'.step = "ManifestWaitReset" <=> (~reached /\ manifest)
             /\ wait'.step = "Wait" <=> (~reached /\ ~manifest)
             /\ wait'.step = "Break" =>
                   /\ wait'.value = cmd.chained_command
                   /\ pc' = "DownloadLoop" /\ cmd' = cmd.chained_command
             /\ wait'.step = "Wait" =>
                   /\ wait'.poll_timeout = (IF report = Null THEN 0 ELSE report.poll_timeout)
                   /\ wait'.get_status.chained_command = cmd
                   /\ pc' = "GetStatus" /\ cmd' = wait'.get_status
                   /\ io' = <<>>
      ]_vars

\* a Wait that carries the non-zero poll timeout of the report just received
C5_Witness ==
    /\ pc = "GetStatus"
    /\ wait # Null
    /\ wait.step = "Wait"
    /\ wait.poll_timeout = 513
    /\ report # Null
    /\ report.poll_timeout = 513

(***************************************************************************)
(* C6: when the device reports DfuManifest and manifestation_tolerant is   *)
(* false the WaitState stops polling and yields ManifestWaitReset, with    *)
(* no reset command when will_detach is true and with one when it is       *)
(* false; when manifestation_tolerant is true it never yields              *)
(* ManifestWaitReset.                                                      *)
(***************************************************************************)
C6_ManifestWaitReset ==
    [][/\ (/\ pc = "WaitState"
           /\ report # Null
           /\ report.state = State_DfuManifest
           /\ ~func_desc.manifestation_tolerant) =>
             /\ pc' = "ManifestWaitReset"
             /\ wait'.step = "ManifestWaitReset"
             /\ cmd'.usb_reset = ~func_desc.will_detach
             /\ wait'.usb_reset = ~func_desc.will_detach
       /\ pc' = "ManifestWaitReset" =>
             /\ ~func_desc.manifestation_tolerant
             /\ report.state = State_DfuManifest
      ]_vars

\* ManifestWaitReset(None): the device detaches by itself
C6_Witness ==
    /\ pc = "ManifestWaitReset"
    /\ func_desc.will_detach
    /\ ~cmd.usb_reset
    /\ last_state = State_DfuManifest

(***************************************************************************)
(* C7: erased_pos, copied_pos and block_num never decrease and never wrap  *)
(* across the steps of a download.  An erase whose erased_pos + page size  *)
(* exceeds the 32-bit ceiling fails with EraseLimitReached, a write whose  *)
(* copied_pos + sent length exceeds the 32-bit ceiling fails with          *)
(* MaximumTransferSizeExceeded, and a write whose block_num + 1 exceeds    *)
(* the 16-bit ceiling fails with MaximumChunksExceeded, each without a     *)
(* next loop state.                                                        *)
(***************************************************************************)
\* the cursor only grows, inside the integer ranges
C7_Monotonic ==
    /\ HasCursor' =>
          /\ Cursor'.erased_pos \in 0..U32_MAX
          /\ Cursor'.copied_pos \in 0..U32_MAX
          /\ Cursor'.block_num \in 0..U16_MAX
    /\ (HasCursor /\ HasCursor') =>
          /\ Cursor'.erased_pos >= Cursor.erased_pos
          /\ Cursor'.copied_pos >= Cursor.copied_pos
          /\ Cursor'.block_num >= Cursor.block_num

C7_Failed(kind) ==
    /\ pc' = "Error"
    /\ cmd' = Null
    /\ error'.kind = kind
    /\ io' = <<>>

C7_EraseOverflow ==
    (/\ pc = "Erase"
     /\ cmd.memory_layout # <<>>
     /\ cmd.erased_pos + Head(cmd.memory_layout) > U32_MAX) => C7_Failed("EraseLimitReached")

\* the write sends min(bytes.len(), transfer_size) bytes
C7_SentLen == Min(arg'.bytes_len, func_desc.transfer_size)

C7_CopiedOverflow ==
    (/\ pc = "DownloadChunk"
     /\ arg'.bytes_len <= U32_MAX
     /\ cmd.copied_pos + C7_SentLen > U32_MAX) => C7_Failed("MaximumTransferSizeExceeded")

\* the claim as stated: every write at the last block number fails with
\* MaximumChunksExceeded
C7_Original ==
    [][/\ C7_Monotonic
       /\ C7_EraseOverflow
       /\ C7_CopiedOverflow
       /\ (pc = "DownloadChunk" /\ cmd.block_num + 1 > U16_MAX) =>
             C7_Failed("MaximumChunksExceeded")
      ]_vars

\* amended: write checks the buffer length and copied_pos first, so the
\* block number overflow is reported when neither of those failed; the
\* write fails without a next loop state in every case
C7_Amended ==
    [][/\ C7_Monotonic
       /\ C7_EraseOverflow
       /\ C7_CopiedOverflow
       /\ (pc = "DownloadChunk" /\ cmd.block_num + 1 > U16_MAX) =>
             C7_Failed(IF arg'.bytes_len > U32_MAX THEN "BufferTooBig"
                       ELSE IF cmd.copied_pos + C7_SentLen > U32_MAX
                       THEN "MaximumTransferSizeExceeded"
                       ELSE "MaximumChunksExceeded")
      ]_vars

\* a write failed at the last block number although copied_pos had room
C7_Witness ==
    /\ pc = "Error"
    /\ error.kind = "MaximumChunksExceeded"
    /\ arg # Null
    /\ arg.bytes_len = 1
    /\ sent > 0

(***************************************************************************)
(* C8: if the memory layout has no page left while erased_pos < end_pos    *)
(* the Erase step fails with NoSpaceLeft; the session never goes on to     *)
(* SetAddress or DownloadChunk with erased_pos < end_pos.                  *)
(***************************************************************************)
C8_NoSilentTruncation ==
    [][/\ (pc = "Erase" /\ cmd.memory_layout = <<>>) =>
             /\ cmd.erased_pos < cmd.end_pos
             /\ pc' = "Error"
             /\ cmd' = Null
             /\ error'.kind = "NoSpaceLeft"
             /\ io' = <<>>
       /\ (pc = "DownloadLoop" /\ cmd.memory_layout = <<>> /\ cmd.erased_pos < cmd.end_pos
           /\ ~cmd.eof) => pc' = "Erase"
       /\ pc' \in {"SetAddress", "DownloadChunk"} => cmd'.erased_pos >= cmd'.end_pos
      ]_vars

\* the layout ran out after two erased pages, short of end_pos
C8_Witness ==
    /\ pc = "Error"
    /\ error.kind = "NoSpaceLeft"
    /\ steps = <<"Erase", "Erase", "Erase">>

(***************************************************************************)
(* C9: for a chunk of length L and transfer-size limit T one write sends   *)
(* exactly min(L, T) bytes and the next loop state's copied_pos is the     *)
(* previous copied_pos plus min(L, T); hence after any sequence of writes  *)
(* copied_pos minus the start address is the number of bytes sent.         *)
(***************************************************************************)
C9_CopiedPosAdvance ==
    [][/\ (pc = "DownloadChunk" /\ pc' = "WaitState") =>
             LET L == arg'.bytes_len
                 T == func_desc.transfer_size
                 n == IF L <= T THEN L ELSE T
             IN  /\ Len(io') = 1
                 /\ io'[1].request = DFU_DNLOAD
                 /\ io'[1].data_len = n
                 /\ cmd'.chained_command.copied_pos = cmd.copied_pos + n
                 /\ sent' = sent + n
       /\ HasCursor' => Cursor'.copied_pos - start.address = sent'
      ]_vars

\* a chunk longer than the transfer size was cut to the transfer size
C9_Witness ==
    /\ pc = "WaitState"
    /\ IssuedDnload
    /\ Last(steps) = "DownloadChunk"
    /\ arg.bytes_len = 3
    /\ func_desc.transfer_size = 2
    /\ io[1].data_len = 2
    /\ cmd.chained_command.copied_pos = start.address + 2 + 1
    /\ Len(empties) = 2

(***************************************************************************)
(* C10: a write with an empty chunk sets the end-of-stream flag, and the   *)
(* DownloadLoop::next that follows it (once polling has confirmed          *)
(* DfuDnloadIdle) yields Break whatever erased_pos, end_pos and            *)
(* address_set are; DownloadLoop::next never yields Break unless an empty  *)
(* chunk was written before in the session.                                *)
(***************************************************************************)
C10_BreakIffEmptyChunk ==
    [][/\ (pc = "DownloadChunk" /\ pc' = "WaitState") =>
             cmd'.chained_command.eof = (arg'.bytes_len = 0)
       /\ (pc = "DownloadLoop" /\ empties # <<>> /\ Last(empties)) =>
             /\ pc' = "Break"
             /\ Last(steps') = "Break"
       /\ pc' = "Break" => \E i \in 1..Len(empties) : empties[i]
       /\ (pc = "DownloadLoop" /\ ~\E i \in 1..Len(empties) : empties[i]) => pc' # "Break"
      ]_vars

\* Break right after the only chunk, which was empty
C10_Witness ==
    /\ pc = "Break"
    /\ empties = <<TRUE>>
    /\ sent = 0

(***************************************************************************)
(* C11: Start::chain succeeds exactly when the reported State is DfuIdle,  *)
(* and then yields a download loop with copied_pos = erased_pos = start    *)
(* address, block_num = 2, address_set = false and eof = false; for every  *)
(* other reported State it fails with InvalidState carrying the State      *)
(* observed and the State expected, DfuIdle, and no download step is ever  *)
(* produced.                                                               *)
(***************************************************************************)
\* a report with the given state byte, as GetStatusRecv::chain hands it on
C11_Report(b) ==
    [status |-> Status_Ok, poll_timeout |-> 0, state |-> decode_state(b), index |-> 0]

C11_StartChain ==
    [][/\ (/\ pc = "GetStatusRecv"
           /\ cmd.chained_command.type = "Start"
           /\ pc' = "DownloadLoop") =>
             /\ arg'.bytes[5] = 2
             /\ cmd' = [memory_layout |-> start.memory_layout, end_pos |-> start.end_pos,
                        copied_pos |-> start.address, erased_pos |-> start.address,
                        address_set |-> FALSE, block_num |-> 2, eof |-> FALSE]
       \* a report that raise_error lets through reaches Start::chain
       /\ (/\ pc = "GetStatusRecv"
           /\ cmd.chained_command.type = "Start"
           /\ Len(arg'.bytes) >= 6
           /\ ~(pc' = "Error" /\ error'.kind \in {"StatusError", "StateError"})) =>
             IF arg'.bytes[5] = 2 THEN pc' = "DownloadLoop"
             ELSE /\ pc' = "Error"
                  /\ cmd' = Null
                  /\ error' = [kind |-> "InvalidState", got |-> decode_state(arg'.bytes[5]),
                               expected |-> State_DfuIdle]
       /\ (pc' = "Error" /\ error'.kind = "InvalidState") => steps' = <<>>
       \* Start::chain itself, for every state byte
       /\ pc = "GetStatusRecv" /\ cmd.chained_command.type = "Start" =>
             \A b \in 0..255 :
                LET r == Start_chain(cmd.chained_command, C11_Report(b))
                IN  IF b = 2 THEN r.error = NoError
                    ELSE /\ r.into = Null
                         /\ r.error = [kind |-> "InvalidState", got |-> decode_state(b),
                                       expected |-> State_DfuIdle]
      ]_vars

\* the session start saw DfuDnbusy
C11_Witness ==
    /\ pc = "Error"
    /\ error.kind = "InvalidState"
    /\ error.got = [variant |-> "DfuDnbusy"]
    /\ error.expected = State_DfuIdle
    /\ arg.bytes[5] = 4

(***************************************************************************)
(* C12: erase consumes the memory layout head-first: the k-th Erase of a   *)
(* session is issued at the start address plus the sizes of the first      *)
(* k - 1 pages, advances erased_pos by the size of the k-th page and       *)
(* removes that page from the layout; erasing goes on exactly while        *)
(* erased_pos < end_pos.  For a layout of two pages of 3, address 0 and    *)
(* end_pos 5 (the spec's [1024, 1024, 2048], 0, 1500 at the scale of the   *)
(* model): Erase at 0, Erase at 3, SetAddress(0), DownloadChunk with       *)
(* block_num 2.                                                            *)
(***************************************************************************)
RECURSIVE SumFirst(_, _)
SumFirst(s, n) == IF n = 0 THEN 0 ELSE SumFirst(s, n - 1) + s[n]

C12_EraseHeadFirst ==
    [][/\ (pc = "Erase" /\ pc' = "WaitState") =>
             LET k == Count(steps, "Erase")
                 at == start.address + SumFirst(start.memory_layout, k - 1)
             IN  /\ k <= Len(start.memory_layout)
                 /\ cmd.erased_pos = at
                 /\ io' = <<[request_type |-> REQUEST_TYPE, request |-> DFU_DNLOAD,
                             value |-> 0, data_len |-> 5, data |-> <<65, at, 0, 0, 0>>]>>
                 /\ cmd'.chained_command.erased_pos = at + start.memory_layout[k]
                 /\ cmd'.chained_command.memory_layout =
                       SubSeq(start.memory_layout, k + 1, Len(start.memory_layout))
                 /\ cmd'.chained_command.copied_pos = start.address
                 /\ cmd'.chained_command.block_num = 2
       /\ pc = "DownloadLoop" => (pc' = "Erase" <=> cmd.erased_pos < cmd.end_pos)
      ]_vars

\* the scenario: two pages erased, the address set, the first chunk due
C12_Witness ==
    /\ start.memory_layout = <<3, 3>>
    /\ start.address = 0
    /\ start.end_pos = 5
    /\ steps = <<"Erase", "Erase", "SetAddress", "DownloadChunk">>
    /\ pc = "DownloadChunk"
    /\ cmd = [memory_layout |-> <<>>, end_pos |-> 5, copied_pos |-> 0, erased_pos |-> 6,
              block_num |-> 2]

(***************************************************************************)
(* C13: every erase and set-address DNLOAD carries wValue 0 and a 5-byte   *)
(* payload: opcode 0x41 resp. 0x21, then the 32-bit little-endian address  *)
(* (erased_pos for erase, copied_pos for set-address).  The chunk DNLOADs  *)
(* of a session carry the block number as wValue: 2 for the first chunk,   *)
(* one more for each chunk after it, never 0 or 1.                         *)
(***************************************************************************)
C13_Command(r, opcode, address) ==
    /\ r.request_type = REQUEST_TYPE
    /\ r.request = DFU_DNLOAD
    /\ r.value = 0
    /\ r.data_len = 5
    /\ Len(r.data) = 5
    /\ r.data[1] = opcode
    /\ r.data[2] + 256 * r.data[3] + 65536 * r.data[4] + 16777216 * r.data[5] = address
    /\ \A i \in 2..5 : r.data[i] \in 0..255

C13_RequestValues ==
    [][/\ (pc = "Erase" /\ io' # <<>>) =>
             Len(io') = 1 /\ C13_Command(io'[1], 65, cmd.erased_pos)
       /\ (pc = "SetAddress" /\ io' # <<>>) =>
             Len(io') = 1 /\ C13_Command(io'[1], 33, cmd.copied_pos)
       /\ (pc = "DownloadChunk" /\ io' # <<>>) =>
             /\ Len(io') = 1
             /\ io'[1].request = DFU_DNLOAD
             /\ io'[1].value = 2 + Len(empties)
             /\ io'[1].value = cmd.block_num
             /\ io'[1].value \notin {0, 1}
       \* the encoders on addresses above one byte: 0x12345678 and 0x7fffff00
       /\ DownloadCommandErase(305419896) = <<65, 120, 86, 52, 18>>
       /\ DownloadCommandSetAddress(2147483392) = <<33, 0, 255, 255, 127>>
      ]_vars

\* the second chunk of a session went out with wValue 3, after an erase
C13_Witness ==
    /\ IssuedDnload
    /\ pc = "WaitState"
    /\ Last(steps) = "DownloadChunk"
    /\ Count(steps, "Erase") >= 1
    /\ Len(empties) = 2
    /\ io[1].value = 3

(***************************************************************************)
(* C14: GetStatusRecv::chain given fewer than 6 bytes (0 bytes included)   *)
(* always fails with ResponseTooShort carrying the length received and the *)
(* expected length 6; no field is decoded and the chained command is not   *)
(* run.  Given 6 bytes or more it never fails with that error.             *)
(***************************************************************************)
C14_ResponseTooShort ==
    [][pc = "GetStatusRecv" =>
         /\ Len(arg'.bytes) < 6 =>
               /\ pc' = "Error"
               /\ error' = [kind |-> "ResponseTooShort", got |-> Len(arg'.bytes), expected |-> 6]
               /\ cmd' = Null
               \* nothing decoded, the chained command not run
               /\ last_state' = last_state
               /\ report' = report
               /\ GetStatusRecv_chain(cmd, arg'.bytes).msg = Null
               /\ GetStatusRecv_chain(cmd, arg'.bytes).into = Null
         /\ Len(arg'.bytes) >= 6 => ~(pc' = "Error" /\ error'.kind = "ResponseTooShort")
         /\ \A n \in 0..7 :
               LET r == GetStatusRecv_chain(cmd, [i \in 1..n |-> IF i = 5 THEN 5 ELSE 0])
               IN  IF n < 6
                   THEN r = [error |-> [kind |-> "ResponseTooShort", got |-> n, expected |-> 6],
                             into |-> Null, msg |-> Null]
                   ELSE r.error.kind # "ResponseTooShort"
      ]_vars

\* a 5-byte response, received while polling after a DNLOAD, was refused
C14_Witness ==
    /\ pc = "Error"
    /\ error = [kind |-> "ResponseTooShort", got |-> 5, expected |-> 6]
    /\ arg = [bytes |-> <<0, 0, 0, 0, 5>>]
    /\ steps # <<>>

(***************************************************************************)
(* C15: decoding a 6-byte GETSTATUS response is lossless.  Status bytes    *)
(* 0x00-0x0f and state bytes 0-10 map to sixteen resp. eleven distinct     *)
(* named variants, every other byte maps to the catch-all carrying that    *)
(* byte, the poll timeout is b1 + 256*b2 + 65536*b3 (below 2^24), the      *)
(* string index is byte 5; re-encoding the decoded message gives back the  *)
(* 6 bytes.                                                                *)
(***************************************************************************)
\* the code of a decoded Status or State
C15_code(v, names) ==
    IF v.variant = "Other" THEN v.code
    ELSE (CHOOSE i \in 1..Len(names) : names[i] = v.variant) - 1

C15_encode(msg) ==
    <<C15_code(msg.status, StatusNames),
      msg.poll_timeout % 256, (msg.poll_timeout \div 256) % 256, msg.poll_timeout \div 65536,
      C15_code(msg.state, StateNames), msg.index>>

C15_RoundTrip ==
    /\ pc = "Decoded" =>
          LET b == arg.bytes
          IN  /\ C15_encode(report) = b
              /\ report.poll_timeout = b[2] + 256 * b[3] + 65536 * b[4]
              /\ report.poll_timeout < 16777216
              /\ report.index = b[6]
              /\ report.status = IF b[1] <= 15 THEN [variant |-> StatusNames[b[1] + 1]]
                                 ELSE [variant |-> "Other", code |-> b[1]]
              /\ report.state = IF b[5] <= 10 THEN [variant |-> StateNames[b[5] + 1]]
                                ELSE [variant |-> "Other", code |-> b[5]]
              \* the message GetStatusRecv::chain hands on is this one
              /\ LET r == GetStatusRecv_chain([chained_command |-> WaitState(State_DfuDnloadIdle, Null)], b)
                 IN  r.error = NoError => r.msg = report
    /\ Cardinality({decode_status(c) : c \in 0..15}) = 16
    /\ Cardinality({decode_state(c) : c \in 0..10}) = 11
    /\ \A c \in 0..255 :
          /\ C15_code(decode_status(c), StatusNames) = c
          /\ C15_code(decode_state(c), StateNames) = c
          /\ c > 15 => decode_status(c) = [variant |-> "Other", code |-> c]
          /\ c > 10 => decode_state(c) = [variant |-> "Other", code |-> c]
          /\ c <= 15 => decode_status(c).variant # "Other"
          /\ c <= 10 => decode_state(c).variant # "Other"

\* a named status, a catch-all state and a poll timeout with a high byte set
C15_Witness ==
    /\ pc = "Decoded"
    /\ arg.bytes = <<10, 1, 0, 255, 255, 255>>
    /\ report = [status |-> [variant |-> "ErrFirmware"], poll_timeout |-> 16711681,
                 state |-> [variant |-> "Other", code |-> 255], index |-> 255]

C17_EofIffEmptyPayload ==
    [][(pc = "DownloadChunk" /\ pc' = "WaitState") =>
          (cmd'.chained_command.eof <=> io'[1].data_len = 0)
      ]_vars

\* what holds instead: eof is bytes.is_empty() of the chunk handed in
C17_EofIffEmptyChunk ==
    [][(pc = "DownloadChunk" /\ pc' = "WaitState") =>
          /\ cmd'.chained_command.eof <=> arg'.bytes_len = 0
          /\ io'[1].data_len = Min(arg'.bytes_len, func_desc.transfer_size)
      ]_vars

\* a zero-length DNLOAD went out for a non-empty chunk and eof stays unset
C17_ZeroLengthNotEof ==
    /\ pc = "WaitState"
    /\ IssuedDnload
    /\ Last(steps) = "DownloadChunk"
    /\ arg.bytes_len = 1
    /\ func_desc.transfer_size = 0
    /\ io[1].data_len = 0
    /\ ~cmd.chained_command.eof

(***************************************************************************)
(* C18: a step that fails with a local error issues no transport request:  *)
(* when erase fails with NoSpaceLeft or EraseLimitReached, or write fails  *)
(* with BufferTooBig, MaximumTransferSizeExceeded or MaximumChunksExceeded,*)
(* write_control has not been called; the device receives no DNLOAD for a  *)
(* step that produced no next loop state.                                  *)
(***************************************************************************)
C18_LocalErrors ==
    {"NoSpaceLeft", "EraseLimitReached", "BufferTooBig", "MaximumTransferSizeExceeded",
     "MaximumChunksExceeded"}

C18_LocalErrorNoRequest ==
    [][/\ (pc \in {"Erase", "SetAddress", "DownloadChunk"} /\ pc' = "Error"
           /\ error'.kind \in C18_LocalErrors) =>
             /\ io' = <<>>
             /\ cmd' = Null
             /\ sent' = sent
             /\ empties' = empties
       \* which step gives which error
       /\ (pc = "Erase" /\ pc' = "Error") =>
             error'.kind \in {"NoSpaceLeft", "EraseLimitReached", "Io"}
       /\ (pc = "SetAddress" /\ pc' = "Error") => error'.kind = "Io"
       /\ (pc = "DownloadChunk" /\ pc' = "Error") =>
             error'.kind \in {"BufferTooBig", "MaximumTransferSizeExceeded",
                              "MaximumChunksExceeded", "Io"}
       \* a DNLOAD goes out only from a step that got as far as the transfer
       /\ (pc \in {"Erase", "SetAddress", "DownloadChunk"} /\ io' # <<>>) =>
             pc' = "WaitState" \/ (pc' = "Error" /\ error'.kind = "Io")
      ]_vars

\* an erase refused on overflow of erased_pos, after an erase that went out
C18_Witness ==
    /\ pc = "Error"
    /\ error.kind = "EraseLimitReached"
    /\ steps = <<"Erase", "Erase">>
    /\ io = <<>>

(***************************************************************************)
(* C19: status polling leaves the pending continuation and the target      *)
(* unchanged: over any number of GETSTATUS rounds, whatever poll timeouts  *)
(* and states are reported, WaitState::chain changes only end,             *)
(* poll_timeout and in_manifest; the DownloadLoop delivered by Break has   *)
(* the cursor (end_pos, copied_pos, erased_pos, address_set, block_num,    *)
(* eof, remaining layout) computed when the DNLOAD was issued, and the     *)
(* target State stays DfuDnloadIdle.                                       *)
(***************************************************************************)
\* the WaitState held, directly or inside a GetStatus / GetStatusRecv
C19_WaitState == IF pc = "WaitState" THEN cmd ELSE cmd.chained_command

C19_PollingFrame ==
    [][/\ (pc = "GetStatusRecv" /\ cmd.chained_command.type = "WaitState" /\ pc' = "WaitState") =>
             /\ cmd' = [cmd.chained_command EXCEPT
                           !.end = (report'.state = State_DfuDnloadIdle),
                           !.poll_timeout = report'.poll_timeout,
                           !.in_manifest = (report'.state = State_DfuManifest)]
             /\ report'.poll_timeout = get_uint_le(arg'.bytes, 2, 3)
             /\ report'.state = decode_state(arg'.bytes[5])
       /\ (Polling /\ Polling') =>
             /\ Cursor' = Cursor
             /\ C19_WaitState'.state = C19_WaitState.state
       /\ Polling' => C19_WaitState'.state = State_DfuDnloadIdle
       \* Break hands over the DownloadLoop as it was when the DNLOAD went out
       /\ (pc = "WaitState" /\ pc' = "DownloadLoop") =>
             /\ cmd' = cmd.chained_command
             /\ cmd' = [memory_layout |-> SubSeq(start.memory_layout, Count(steps, "Erase") + 1,
                                                 Len(start.memory_layout)),
                        end_pos |-> start.end_pos,
                        copied_pos |-> start.address + sent,
                        erased_pos |-> start.address
                                       + SumFirst(start.memory_layout, Count(steps, "Erase")),
                        address_set |-> (Last(steps) # "Erase"),
                        block_num |-> 2 + Len(empties),
                        eof |-> (empties # <<>> /\ Last(empties))]
      ]_vars

\* after two rounds, the second reporting a poll timeout and the target,
\* the WaitState holds the loop of the second chunk
C19_Witness ==
    /\ pc = "WaitState"
    /\ polls = 2
    /\ cmd.end
    /\ cmd.poll_timeout = 513
    /\ cmd.state = State_DfuDnloadIdle
    /\ Count(steps, "Erase") = 1
    /\ Last(steps) = "DownloadChunk"
    /\ cmd.chained_command.block_num = 4
    /\ cmd.chained_command.copied_pos = start.address + sent
    /\ sent = 3

(***************************************************************************)
(* C20: the download loop terminates.  For a finite memory layout the      *)
(* number of Erase steps of a session is at most the number of pages of    *)
(* the layout (also when a page size is 0); if the caller eventually       *)
(* supplies an empty chunk and the device, after every DNLOAD, eventually  *)
(* reports DfuDnloadIdle with Status Ok, the session eventually reaches    *)
(* Break or a terminal error; conversely, while the device keeps reporting *)
(* a state that is neither the target, nor an error, nor DfuManifest,      *)
(* polling yields Wait again and again: no retry bound is built in.        *)
(***************************************************************************)
C20_Pages == Len(start.memory_layout)

\* the erases that went through: the pages gone from the layout
C20_Erased == C20_Pages - Len(Cursor.memory_layout)

\* every polling phase comes to an end
C20_DeviceAnswers == []<>(~Polling)

C20_Terminal == pc \in {"Break", "Error", "ManifestWaitReset"}

C20_Terminates == C20_DeviceAnswers => <>C20_Terminal

C20_WaitAgain ==
    [][(pc = "WaitState" /\ report # Null
        /\ report.state \notin {State_DfuDnloadIdle, State_DfuManifest}) =>
          /\ wait'.step = "Wait"
          /\ wait'.poll_timeout = report.poll_timeout
          /\ pc' = "GetStatus"
          /\ cmd' = [chained_command |-> cmd]
      ]_vars

=============================================================================
